---- MODULE Spec2Model ----
(***************************************************************************)
(* Model of the two-tier result cache of src/cache_helper.py: class Cache  *)
(* with an in-memory dict guarded by a threading.Lock and an SQLite table  *)
(* cache(key, value, expires_at).  Several request threads call get, set   *)
(* and delete; every statement group between two points where another     *)
(* thread can interfere is one action.                                     *)
(***************************************************************************)
EXTENDS Integers, Sequences, FiniteSets, TLC

\* ---------------------------------------------------------------- bounds
NumThreads == 2
MaxTicks == 2
MaxOps == 3
\* The wall clock at construction, in seconds (00:58, so that the clock
\* crosses a minute boundary within MaxTicks).
Epoch == 58

Threads == 1..NumThreads
Keys == {"k1", "k2"}
\* Keys the request threads call the cache with; the other key is a
\* bystander.
CallKeys == {"k1"}
\* ex arguments of set (seconds).
TTLs == {1, 2}

\* ---------------------------------------------------------- Python values
None == "None"
\* Marker of a call that ended by an exception reaching the caller.
Raised == "Raised"
PyStrA == "str:a"
PyStrB == "str:b"
\* The tuple ("x",) and the list ["x"]: different Python values, same JSON.
PyTuple == "tuple:(x,)"
PyList == "list:[x]"
\* A value json.dumps rejects (TypeError), e.g. a set object.
PyObj == "object"
\* Values callers pass to set.
SetValues == {PyStrA, PyTuple, PyObj}

\* json.dumps raises TypeError on this value.
Serializable(v) == v \in {PyStrA, PyStrB, PyTuple, PyList}

\* json.dumps(value): the JSON text.
json_dumps(v) ==
  CASE v = PyStrA -> "\"a\""
    [] v = PyStrB -> "\"b\""
    [] v = PyTuple -> "[\"x\"]"
    [] v = PyList -> "[\"x\"]"

\* A payload that is no JSON text.
BadJson == "{bad"

\* json.loads accepts the text.
IsJson(s) == s \in {"\"a\"", "\"b\"", "[\"x\"]"}

\* json.loads(text): the Python value (a JSON array becomes a list).
json_loads(s) ==
  CASE s = "\"a\"" -> PyStrA
    [] s = "\"b\"" -> PyStrB
    [] s = "[\"x\"]" -> PyList

\* ------------------------------------------------------------- datetimes
\* A datetime is a number of seconds; its ISO text is the fixed-width
\* fields <<minutes, seconds>>, as in "...MM:SS".
isoformat(t) == <<t \div 60, t % 60>>

\* datetime.fromisoformat accepts the text.
IsIso(s) == Len(s) = 2 /\ s[1] \in 0..59 /\ s[2] \in 0..59

\* datetime.fromisoformat(text).
fromisoformat(s) == s[1] * 60 + s[2]

\* A stored expires_at that fromisoformat rejects (seconds field 99).
BadIso == <<0, 99>>

\* SQLite's text comparison a < b of two expires_at columns.
TextLess(a, b) ==
  \E i \in 1..(Len(a) + 1) :
    /\ \A j \in 1..(i - 1) : j <= Len(b) /\ a[j] = b[j]
    /\ IF i > Len(a) THEN Len(b) >= i
       ELSE i <= Len(b) /\ a[i] < b[i]

\* expires_at = datetime.now() + timedelta(seconds=ex).
ExpiresAt(now, ex) == now + ex

\* Mutant of Expired: an entry counts as expired in its last second.
ExpiredInclusive(now, expires_at) == now >= expires_at

\* Mutant of Expired: an entry is served for one second past its expiration.
ExpiredLenient(now, expires_at) == now > expires_at + 1

\* The expiry test of get, on both tiers: datetime.now() > expires_at.
Expired(now, expires_at) == now > expires_at

\* --------------------------------------------------------------- entries
\* key not in self._cache.
NoEntry == [value |-> None, expires_at |-> 0]
\* No row for the key in table cache.
NoRow == [value |-> "", expires_at |-> <<>>]

\* Rows a previous process may have left in cache.db.
InitRows ==
  { NoRow,
    [value |-> "[\"x\"]", expires_at |-> isoformat(Epoch + 1)],
    [value |-> "\"b\"", expires_at |-> isoformat(Epoch - 1)],
    [value |-> BadJson, expires_at |-> isoformat(Epoch + 2)],
    [value |-> "\"a\"", expires_at |-> BadIso] }

\* The tables cache.db may hold when the process starts.
InitTables ==
  { [k \in Keys |-> IF k = "k1" THEN r ELSE NoRow] : r \in InitRows }

\* Mutant of clean_expired: the sweep also removes the rows that expire at
\* the very time of the sweep.
clean_expired_Inclusive(table, now) ==
  [k \in Keys |->
     IF table[k] # NoRow /\ ~TextLess(isoformat(now), table[k].expires_at)
     THEN NoRow ELSE table[k]]

\* DELETE FROM cache WHERE expires_at < now.isoformat().
clean_expired(table, now) ==
  [k \in Keys |->
     IF table[k] # NoRow /\ TextLess(table[k].expires_at, isoformat(now))
     THEN NoRow ELSE table[k]]

VARIABLES
  cache,     \* self._cache: key -> entry
  db,        \* table cache of cache.db: key -> row
  lock,      \* self._lock: 0 when free, else the holding thread
  clock,     \* datetime.now(), in seconds
  th,        \* per thread: program counter and locals of the running call
  opsLeft,   \* calls still to be issued
  dbFault,   \* history: a durable-tier access has failed
  last,      \* history, per key: the latest set/delete call of the key
  look,      \* call sites: the lookups whose cache_key is being built
  store,     \* call sites: the cache as its callers see it, key -> entry
  req,       \* call sites: the request being served or last served
  reqLeft,   \* call sites: requests still to come
  HAS_VALID_API_KEY  \* call sites: a Gemini API key was configured at import

\* The state of class Cache, and the state of the code that calls it.
cacheVars == <<cache, db, lock, clock, th, opsLeft, dbFault, last>>
appVars == <<look, store, req, reqLeft, HAS_VALID_API_KEY>>

vars == <<cache, db, lock, clock, th, opsLeft, dbFault, last,
          look, store, req, reqLeft, HAS_VALID_API_KEY>>

\* History record of a key: no set/delete call yet.
NoLast ==
  [kind |-> "none", owner |-> 0, value |-> None, expires_at |-> 0,
   stored |-> FALSE, clean |-> FALSE, prev |-> None]

\* A thread outside any call, before its first call.
IdleThread ==
  [pc |-> "idle", op |-> "none", key |-> "k1", value |-> None, ex |-> 0,
   expires_at |-> 0, nested |-> FALSE, ret |-> None,
   how |-> "none", expect |-> NoLast, alone |-> FALSE, late |-> FALSE,
   again |-> "none"]

\* The two lookups whose keys are compared.
Sides == {"first", "second"}

\* No lookup, no request: the call sites are left out.
NoLook == [site |-> "none", subj |-> <<>>, par |-> <<>>, key |-> <<>>]
NoReq ==
  [site |-> "none", key |-> <<>>, out |-> [type |-> "none"],
   status |-> "none", hit |-> FALSE, upstream |-> 0, failed |-> FALSE,
   answer |-> "none", par |-> <<>>]
AppIdle ==
  /\ look = [s \in Sides |-> NoLook]
  /\ store = {}
  /\ req = NoReq
  /\ reqLeft = 0
  /\ HAS_VALID_API_KEY = TRUE

\* cache = Cache(): empty dict, free lock, _init_db with its startup sweep.
Init ==
  /\ AppIdle
  /\ cache = [k \in Keys |-> NoEntry]
  /\ \E table \in InitTables : db = clean_expired(table, Epoch)
  /\ lock = 0
  /\ clock = Epoch
  /\ th = [t \in Threads |-> IdleThread]
  /\ opsLeft = MaxOps
  /\ dbFault = FALSE
  /\ last = [k \in Keys |-> NoLast]

\* Time passes.
Tick ==
  /\ clock < Epoch + MaxTicks
  /\ clock' = clock + 1
  /\ UNCHANGED <<cache, db, lock, th, opsLeft, dbFault, last, appVars>>

\* ------------------------------------------------------ history helpers
\* No other thread is inside a call on key k.
Alone(t, k) == \A u \in Threads \ {t} : th[u].pc = "idle" \/ th[u].key # k

\* Another thread is inside a set or delete call on key k.
WriterBusy(t, k) ==
  \E u \in Threads \ {t} :
    th[u].pc # "idle" /\ th[u].key = k /\ th[u].op \in {"set", "delete"}

\* Bookkeeping on the record r of another thread when a call on k begins.
Disturb(r, k, write) ==
  IF r.key # k THEN r
  ELSE IF r.pc = "idle" THEN IdleThread
  ELSE [r EXCEPT !.alone = FALSE, !.expect = IF write THEN NoLast ELSE @]

\* The call of thread t returns v to its caller.
Return(r, v, h) ==
  [IdleThread EXCEPT !.op = r.op, !.key = r.key, !.ret = v, !.how = h,
     !.expect = r.expect, !.alone = r.alone, !.late = r.late,
     !.again = r.again,
     !.value = IF r.op = "set" THEN r.value ELSE None,
     !.expires_at = IF r.op = "set" THEN r.expires_at ELSE 0]

\* The set/delete call of t on its key has completed.
Completed(t, kind, stored) ==
  LET k == th[t].key IN
  IF last[k].owner = t /\ last[k].kind \in {"pending_set", "pending_delete"}
  THEN [last EXCEPT ![k].kind = kind, ![k].stored = stored]
  ELSE last

\* History: set(k, v, ex) by thread t repeats the call t has just returned
\* from (same key, same value, same resulting expiration, no other call on
\* the key since that call began); the outcome of that call, else "none".
Again(t, k, v, ex) ==
  IF /\ th[t].op = "set"
     /\ th[t].key = k
     /\ th[t].value = v
     /\ th[t].expires_at = ExpiresAt(clock, ex)
     /\ th[t].alone
  THEN th[t].how ELSE "none"

\* ----------------------------------------------------------------- calls
\* A request thread calls cache.get(key).
CallGet(t, k) ==
  /\ th[t].pc = "idle"
  /\ opsLeft > 0
  /\   /\ th' = [u \in Threads |->
                   IF u = t
                   THEN [IdleThread EXCEPT !.pc = "g_lock1", !.op = "get",
                           !.key = k, !.expect = last[k],
                           !.alone = Alone(t, k),
                           !.late = (clock > last[k].expires_at)]
                   ELSE Disturb(th[u], k, FALSE)]
       /\ last' = [last EXCEPT ![k].clean = FALSE]
  /\ opsLeft' = opsLeft - 1
  /\ UNCHANGED <<cache, db, lock, clock, dbFault, appVars>>

\* A request thread calls cache.set(key, value, ex); the first statement
\* computes expires_at.
CallSet(t, k, v, ex) ==
  /\ th[t].pc = "idle"
  /\ opsLeft > 0
  /\   /\ th' = [u \in Threads |->
                   IF u = t
                   THEN [IdleThread EXCEPT !.pc = "s_lock", !.op = "set",
                           !.key = k, !.value = v, !.ex = ex,
                           !.expires_at = ExpiresAt(clock, ex),
                           !.alone = Alone(t, k),
                           !.again = Again(t, k, v, ex)]
                   ELSE Disturb(th[u], k, TRUE)]
       /\ last' = [last EXCEPT ![k] =
                     IF WriterBusy(t, k)
                     THEN [NoLast EXCEPT !.kind = "unknown"]
                     ELSE [kind |-> "pending_set", owner |-> t, value |-> v,
                           expires_at |-> clock + ex, stored |-> FALSE,
                           clean |-> Alone(t, k),
                           prev |-> IF last[k].kind = "set"
                                    THEN last[k].value ELSE None]]
  /\ opsLeft' = opsLeft - 1
  /\ UNCHANGED <<cache, db, lock, clock, dbFault, appVars>>

\* A request thread calls cache.delete(key).
CallDelete(t, k) ==
  /\ th[t].pc = "idle"
  /\ opsLeft > 0
  /\   /\ th' = [u \in Threads |->
                   IF u = t
                   THEN [IdleThread EXCEPT !.pc = "d_lock", !.op = "delete",
                           !.key = k, !.alone = Alone(t, k)]
                   ELSE Disturb(th[u], k, TRUE)]
       /\ last' = [last EXCEPT ![k] =
                     IF WriterBusy(t, k)
                     THEN [NoLast EXCEPT !.kind = "unknown"]
                     ELSE [NoLast EXCEPT !.kind = "pending_delete",
                             !.owner = t, !.clean = Alone(t, k)]]
  /\ opsLeft' = opsLeft - 1
  /\ UNCHANGED <<cache, db, lock, clock, dbFault, appVars>>

\* Mutant of Acquire: the with block is entered without waiting for the
\* lock.
AcquireNoWait(t, from, to) ==
  /\ th[t].pc = from
  /\ lock' = t
  /\ th' = [th EXCEPT ![t].pc = to]
  /\ UNCHANGED <<cache, db, clock, opsLeft, dbFault, last, appVars>>

\* with self._lock: entry (blocks while another thread holds the lock).
Acquire(t, from, to) ==
  /\ th[t].pc = from
  /\ lock = 0
  /\ lock' = t
  /\ th' = [th EXCEPT ![t].pc = to]
  /\ UNCHANGED <<cache, db, clock, opsLeft, dbFault, last, appVars>>

\* ------------------------------------------------------------------- get
GetAcquire(t) == Acquire(t, "g_lock1", "g_mem")

\* The in-memory lookup of get, under the lock: key in self._cache, the
\* expiry check, and the return of a live value (which releases the lock).
GetMem(t) ==
  /\ th[t].pc = "g_mem"
  /\ lock = t
  /\ LET k == th[t].key
         item == cache[k]
     IN IF item # NoEntry
        THEN IF Expired(clock, item.expires_at)
             THEN /\ lock' = lock
                  /\ th' = [th EXCEPT ![t].pc = "g_evict"]
             ELSE /\ lock' = 0
                  /\ th' = [th EXCEPT ![t] = Return(@, item.value, "mem")]
        ELSE /\ lock' = 0
             /\ th' = [th EXCEPT ![t].pc = "g_select"]
  /\ UNCHANGED <<cache, db, clock, opsLeft, dbFault, last, appVars>>

\* Mutant of GetEvict: the eviction does not leave the with block, the
\* rest of get runs under the lock.
GetEvictKeepsLock(t) ==
  /\ th[t].pc = "g_evict"
  /\ lock = t
  /\ lock' = lock
  /\ cache' = [cache EXCEPT ![th[t].key] = NoEntry]
  /\ th' = [th EXCEPT ![t].pc = "g_select"]
  /\ UNCHANGED <<db, clock, opsLeft, dbFault, last, appVars>>

\* del self._cache[key] of the expired entry, still under the lock, which
\* the end of the with block then releases.
GetEvict(t) ==
  /\ th[t].pc = "g_evict"
  /\ lock = t
  /\ lock' = 0
  /\ cache' = [cache EXCEPT ![th[t].key] = NoEntry]
  /\ th' = [th EXCEPT ![t].pc = "g_select"]
  /\ UNCHANGED <<db, clock, opsLeft, dbFault, last, appVars>>

\* Mutant of OnGetError: no handler, the exception reaches the caller.
OnGetErrorPropagates(r) == Return(r, Raised, "error")

\* except Exception in get: log a warning, fall through to return None.
OnGetError(r) == Return(r, None, "error")

\* SELECT value, expires_at FROM cache WHERE key = ?; fetchone(), and what
\* get does with the fetched row, up to the second lock.
GetSelect(t) ==
  /\ th[t].pc = "g_select"
  /\ LET r == db[th[t].key] IN
     th' = [th EXCEPT ![t] =
              IF r = NoRow THEN Return(@, None, "miss")
              ELSE IF ~IsIso(r.expires_at) THEN OnGetError(@)
              ELSE IF Expired(clock, fromisoformat(r.expires_at))
                   THEN [@ EXCEPT !.pc = "d_lock", !.nested = TRUE]
              ELSE IF ~IsJson(r.value) THEN OnGetError(@)
              ELSE [@ EXCEPT !.pc = "g_lock2",
                             !.value = json_loads(r.value),
                             !.expires_at = fromisoformat(r.expires_at)]]
  /\ UNCHANGED <<cache, db, lock, clock, opsLeft, dbFault, last, appVars>>

\* The SQLite access of get raises; the handler logs and get returns None.
GetSelectFails(t) ==
  /\ th[t].pc = "g_select"
  /\ th' = [th EXCEPT ![t] = OnGetError(@)]
  /\ dbFault' = TRUE
  /\ UNCHANGED <<cache, db, lock, clock, opsLeft, last, appVars>>

GetAcquire2(t) == Acquire(t, "g_lock2", "g_fill")

\* Mutant of GetFill: the durable value is returned without repopulating.
GetFillNoStore(t) ==
  /\ th[t].pc = "g_fill"
  /\ lock = t
  /\ lock' = 0
  /\ th' = [th EXCEPT ![t] = Return(@, th[t].value, "db")]
  /\ UNCHANGED <<cache, db, clock, opsLeft, dbFault, last, appVars>>

\* Repopulation of the in-memory tier, under the lock, and return.
GetFill(t) ==
  /\ th[t].pc = "g_fill"
  /\ lock = t
  /\ lock' = 0
  /\ cache' = [cache EXCEPT ![th[t].key] =
                 [value |-> th[t].value, expires_at |-> th[t].expires_at]]
  /\ th' = [th EXCEPT ![t] = Return(@, th[t].value, "db")]
  /\ UNCHANGED <<db, clock, opsLeft, dbFault, last, appVars>>

\* ------------------------------------------------------------------- set
SetAcquire(t) == Acquire(t, "s_lock", "s_mem")

\* Mutant of SetMem: a set on an existing entry pushes its expiration ex
\* seconds further instead of replacing it.
SetMemExtends(t) ==
  /\ th[t].pc = "s_mem"
  /\ lock = t
  /\ lock' = 0
  /\ cache' = [cache EXCEPT ![th[t].key] =
                 [value |-> th[t].value,
                  expires_at |-> IF cache[th[t].key] = NoEntry
                                 THEN th[t].expires_at
                                 ELSE cache[th[t].key].expires_at + th[t].ex]]
  /\ th' = [th EXCEPT ![t].pc = "s_db"]
  /\ UNCHANGED <<db, clock, opsLeft, dbFault, last, appVars>>

\* The in-memory write of set, under the lock.
SetMem(t) ==
  /\ th[t].pc = "s_mem"
  /\ lock = t
  /\ lock' = 0
  /\ cache' = [cache EXCEPT ![th[t].key] =
                 [value |-> th[t].value, expires_at |-> th[t].expires_at]]
  /\ th' = [th EXCEPT ![t].pc = "s_db"]
  /\ UNCHANGED <<db, clock, opsLeft, dbFault, last, appVars>>

\* Mutant of SetDb: the value column is replaced, the expires_at column of
\* an existing row is kept.
SetDbValueOnly(t) ==
  /\ th[t].pc = "s_db"
  /\ Serializable(th[t].value)
  /\ db' = [db EXCEPT ![th[t].key] =
              [value |-> json_dumps(th[t].value),
               expires_at |-> IF db[th[t].key] = NoRow
                              THEN isoformat(th[t].expires_at)
                              ELSE db[th[t].key].expires_at]]
  /\ th' = [th EXCEPT ![t] = Return(@, None, "stored")]
  /\ last' = Completed(t, "set", TRUE)
  /\ UNCHANGED <<cache, lock, clock, opsLeft, dbFault, appVars>>

\* json.dumps and INSERT OR REPLACE succeed.
SetDb(t) ==
  /\ th[t].pc = "s_db"
  /\ Serializable(th[t].value)
  /\ db' = [db EXCEPT ![th[t].key] =
              [value |-> json_dumps(th[t].value),
               expires_at |-> isoformat(th[t].expires_at)]]
  /\ th' = [th EXCEPT ![t] = Return(@, None, "stored")]
  /\ last' = Completed(t, "set", TRUE)
  /\ UNCHANGED <<cache, lock, clock, opsLeft, dbFault, appVars>>

\* Mutant of SetDbFails: no handler, the exception reaches the caller of set.
SetDbFailsRaises(t) ==
  /\ th[t].pc = "s_db"
  /\ th' = [th EXCEPT ![t] = Return(@, Raised, "dbfail")]
  /\ last' = Completed(t, "set", FALSE)
  /\ dbFault' = TRUE
  /\ UNCHANGED <<cache, db, lock, clock, opsLeft, appVars>>

\* json.dumps or the SQLite access of set raises; the handler logs.
SetDbFails(t) ==
  /\ th[t].pc = "s_db"
  /\ th' = [th EXCEPT ![t] = Return(@, None, "dbfail")]
  /\ last' = Completed(t, "set", FALSE)
  /\ dbFault' = TRUE
  /\ UNCHANGED <<cache, db, lock, clock, opsLeft, appVars>>

\* ---------------------------------------------------------------- delete
DelAcquire(t) == Acquire(t, "d_lock", "d_mem")

\* Mutant of DelMem: delete leaves the in-memory entry in place.
DelMemKeeps(t) ==
  /\ th[t].pc = "d_mem"
  /\ lock = t
  /\ lock' = 0
  /\ th' = [th EXCEPT ![t].pc = "d_db"]
  /\ UNCHANGED <<cache, db, clock, opsLeft, dbFault, last, appVars>>

\* The in-memory removal of delete, under the lock.
DelMem(t) ==
  /\ th[t].pc = "d_mem"
  /\ lock = t
  /\ lock' = 0
  /\ cache' = [cache EXCEPT ![th[t].key] = NoEntry]
  /\ th' = [th EXCEPT ![t].pc = "d_db"]
  /\ UNCHANGED <<db, clock, opsLeft, dbFault, last, appVars>>

\* delete returns: to the caller, or into get (line 111), which returns None.
DelReturn(t, ok) ==
  /\ th' = [th EXCEPT ![t] =
              IF th[t].nested THEN Return(@, None, "expired")
              ELSE Return(@, None, IF ok THEN "deleted" ELSE "dbfail")]
  /\ last' = IF th[t].nested THEN last ELSE Completed(t, "delete", ok)

\* Mutant of DelDb: the DELETE has no WHERE clause.
DelDbAllRows(t) ==
  /\ th[t].pc = "d_db"
  /\ db' = [k \in Keys |-> NoRow]
  /\ DelReturn(t, TRUE)
  /\ UNCHANGED <<cache, lock, clock, opsLeft, dbFault, appVars>>

\* DELETE FROM cache WHERE key = ? succeeds.
DelDb(t) ==
  /\ th[t].pc = "d_db"
  /\ db' = [db EXCEPT ![th[t].key] = NoRow]
  /\ DelReturn(t, TRUE)
  /\ UNCHANGED <<cache, lock, clock, opsLeft, dbFault, appVars>>

\* The SQLite access of delete raises; the handler logs.
DelDbFails(t) ==
  /\ th[t].pc = "d_db"
  /\ DelReturn(t, FALSE)
  /\ dbFault' = TRUE
  /\ UNCHANGED <<cache, db, lock, clock, opsLeft, appVars>>

\* ------------------------------------------------------------------ spec
\* The calls thread t may issue on the keys of K, and the steps of its
\* running call.
ThreadNext(t, K) ==
  \/ \E k \in K : CallGet(t, k)
  \/ \E k \in K, v \in SetValues, ex \in TTLs : CallSet(t, k, v, ex)
  \/ \E k \in K : CallDelete(t, k)
  \/ GetAcquire(t)
  \/ GetMem(t)
  \/ GetEvict(t)
  \/ GetSelect(t)
  \/ GetSelectFails(t)
  \/ GetAcquire2(t)
  \/ GetFill(t)
  \/ SetAcquire(t)
  \/ SetMem(t)
  \/ SetDb(t)
  \/ SetDbFails(t)
  \/ DelAcquire(t)
  \/ DelMem(t)
  \/ DelDb(t)
  \/ DelDbFails(t)

\* Concurrent request threads, all on the keys of CallKeys.
Next == Tick \/ \E t \in Threads : ThreadNext(t, CallKeys)

Spec == Init /\ [][Next]_vars

\* The steps of the call thread t is in: entering a with self._lock block,
\* and every other statement.
Enter(t) ==
  \/ GetAcquire(t)
  \/ GetAcquire2(t)
  \/ SetAcquire(t)
  \/ DelAcquire(t)

Run(t) ==
  \/ GetMem(t)
  \/ GetEvict(t)
  \/ GetSelect(t)
  \/ GetSelectFails(t)
  \/ GetFill(t)
  \/ SetMem(t)
  \/ SetDb(t)
  \/ SetDbFails(t)
  \/ DelMem(t)
  \/ DelDb(t)
  \/ DelDbFails(t)

\* Fair scheduling of the request threads: a thread that can run its next
\* statement eventually runs it, and a thread waiting for the lock gets it
\* if the lock is free again and again.
FairNext ==
  \/ Tick
  \/ \E t \in Threads, k \in CallKeys :
        \/ CallGet(t, k)
        \/ CallSet(t, k, PyStrA, 1)
        \/ CallDelete(t, k)
  \/ \E t \in Threads : Enter(t) \/ Run(t)

FairSpec ==
  /\ Init
  /\ [][FairNext]_vars
  /\ \A t \in Threads : WF_vars(Run(t)) /\ SF_vars(Enter(t))

\* Concurrent request threads on both keys; the sets store one value
\* with one TTL.
BothNext ==
  \/ Tick
  \/ \E t \in Threads, k \in Keys :
        \/ CallGet(t, k)
        \/ CallSet(t, k, PyTuple, 1)
        \/ CallDelete(t, k)
  \/ \E t \in Threads : Enter(t) \/ Run(t)

BothSpec == Init /\ [][BothNext]_vars

\* One request thread: the calls follow one another.
SeqNext == Tick \/ ThreadNext(1, CallKeys)

SeqSpec == Init /\ [][SeqNext]_vars

\* cache = Cache() when sqlite3.connect raises inside _init_db: the handler
\* of __init__ logs a warning; no table is created and no sweep is run, so
\* cache.db is whatever it was.
DownInit ==
  /\ AppIdle
  /\ cache = [k \in Keys |-> NoEntry]
  /\ db \in InitTables
  /\ lock = 0
  /\ clock = Epoch
  /\ th = [t \in Threads |-> IdleThread]
  /\ opsLeft = MaxOps
  /\ dbFault = TRUE
  /\ last = [k \in Keys |-> NoLast]

\* The steps of thread t when every SQLite access raises.
DownThreadNext(t, K) ==
  \/ \E k \in K : CallGet(t, k)
  \/ \E k \in K, v \in SetValues, ex \in TTLs : CallSet(t, k, v, ex)
  \/ \E k \in K : CallDelete(t, k)
  \/ GetAcquire(t)
  \/ GetMem(t)
  \/ GetEvict(t)
  \/ GetSelectFails(t)
  \/ SetAcquire(t)
  \/ SetMem(t)
  \/ SetDbFails(t)
  \/ DelAcquire(t)
  \/ DelMem(t)
  \/ DelDbFails(t)

DownNext == Tick \/ \E t \in Threads : DownThreadNext(t, CallKeys)

\* The process when the durable tier is unavailable from start to end.
DownSpec == DownInit /\ [][DownNext]_vars

\* ------------------------------------------------------ caller mutation
\* Python values a caller can change in place: a list, a set object.
Mutable(v) == v \in {PyList, PyObj}

\* The list ["x"] after the caller has appended "y"; the set object after the
\* caller has added an element.
PyListM == "list:[x,y]"
PyObjM == "object:changed"

\* The value of the object after the caller's change.
Mutated(v) == IF v = PyList THEN PyListM ELSE PyObjM

\* The object the caller of thread t's last call holds: the one get returned
\* (item['value'] or parsed_value) or the one it passed to set.
Held(t) ==
  IF th[t].op = "get" THEN th[t].ret
  ELSE IF th[t].op = "set" THEN th[t].value
  ELSE None

\* Between two calls, the caller changes in place the object it holds.  With
\* the calls following one another the in-memory entry written or read by
\* the last call still holds that very object: self._cache[key]['value'] is
\* the reference passed to set, and get returns that reference.
Mutate(t) ==
  /\ th[t].pc = "idle"
  /\ Mutable(Held(t))
  /\ cache[th[t].key] # NoEntry
  /\ cache[th[t].key].value = Held(t)
  /\ cache' = [cache EXCEPT ![th[t].key].value = Mutated(Held(t))]
  /\ UNCHANGED <<db, lock, clock, th, opsLeft, dbFault, last, appVars>>

MutNext == SeqNext \/ Mutate(1)

\* One request thread whose caller changes the objects it holds.
MutSpec == Init /\ [][MutNext]_vars

\* ------------------------------------------------------ cache keys
\* A string is the sequence of its pieces: a word (a run of bytes holding
\* no separator) or one of the separators "_", ":" and ",".  Two strings are
\* byte-identical exactly when their sequences are equal.
\* Terms and node ids come from the request, whatever the client sends.
Terms == {<<"a">>, <<"a", "_", "a">>}
NodeIds == {<<"generation">>, <<"1">>}
Langs == {<<"ja">>, <<"en">>}
Models == {<<"m1">>, <<"m2">>}
Modes == {<<"exercise">>, <<"ai">>}
Levels == {<<"1">>}
Limits == {<<"100">>}
AnalysisTypes == {<<"basic">>, <<"jlpt">>}
\* include = request.args.get('include', 'basic,wikidata').split(',').
Includes == {<<"basic", "wikidata">>, <<"wikidata", "basic">>}
\* config.GEMINI_DEFAULT_MODEL.
DEFAULT_MODEL == <<"m1">>

\* sep.join(list).
RECURSIVE join(_, _)
join(sep, list) ==
  IF list = <<>> THEN <<>>
  ELSE IF Len(list) = 1 THEN <<list[1]>>
  ELSE <<list[1]>> \o sep \o join(sep, Tail(list))

\* Mutant of current_model_name: the requested model is ignored.
current_model_name_Default(model_name) == DEFAULT_MODEL

\* current_model_name = model_name if model_name else DEFAULT_MODEL.
current_model_name(model_name) ==
  IF model_name = <<>> THEN DEFAULT_MODEL ELSE model_name

\* The f-string that builds cache_key at each call site, from the subject
\* terms l.subj and the parameters l.par of the lookup.
cache_key(l) ==
  CASE l.site = "wikidata_info" ->
         <<"wikidata", ":">> \o l.subj[1] \o <<":">> \o l.par[1]
    [] l.site = "wikidata_related" ->
         <<"wikidata", "_", "related", ":">> \o l.subj[1] \o <<":">>
           \o l.par[1]
    [] l.site = "node_details" ->
         <<"node", "_", "details", ":">> \o l.subj[1] \o <<":">>
           \o join(<<",">>, l.par[1]) \o <<":">> \o l.par[2]
    [] l.site = "gemini_endpoint_explanation" ->
         <<"gemini", "_", "endpoint", "_", "explanation", "_">>
           \o l.subj[1]
    [] l.site = "gemini_endpoint_analyze" ->
         <<"gemini", "_", "endpoint", "_", "analyze", "_">>
           \o l.subj[1] \o <<"_">> \o l.subj[2]
    [] l.site = "graph_analysis" ->
         <<"graph", "_", "analysis", ":">> \o l.par[1] \o <<":">>
           \o l.subj[1] \o <<":">> \o l.par[2]
    [] l.site = "generate_explanation" ->
         <<"gemini", "_", "explanation", "_">> \o l.subj[1] \o <<"_">>
           \o current_model_name(l.par[1])
    [] l.site = "analyze_relationship" ->
         <<"gemini", "_", "relationship", "_">> \o l.subj[1] \o <<"_">>
           \o l.subj[2] \o <<"_">> \o current_model_name(l.par[1])
    [] l.site = "generate_lexical_relations" ->
         <<"ai", "_", "generation", "_">> \o l.subj[1] \o <<"_">>
           \o l.par[1]
    [] l.site = "generate_exercise" ->
         l.par[1] \o <<"_">> \o l.subj[1] \o <<"_">> \o l.par[2]
           \o <<"_">> \o l.par[3]

\* A lookup at a call site, its key not built yet.
Lookup(site, subj, par) ==
  [site |-> site, subj |-> subj, par |-> par, key |-> <<>>]

\* The lookups of each call site: operation, subject term(s), parameters.
Lookups ==
  {Lookup("wikidata_info", <<t>>, <<g>>) : t \in Terms, g \in Langs}
  \cup {Lookup("wikidata_related", <<t>>, <<g>>) : t \in Terms, g \in Langs}
  \cup {Lookup("node_details", <<n>>, <<i, <<"japanese">> >>) :
          n \in NodeIds, i \in Includes}
  \cup {Lookup("gemini_endpoint_explanation", <<t>>, <<m>>) :
          t \in Terms, m \in Models}
  \cup {Lookup("gemini_endpoint_analyze", <<t, u>>, <<m>>) :
          t \in Terms, u \in Terms, m \in Models}
  \cup {Lookup("graph_analysis", <<n>>, <<a, c>>) :
          n \in NodeIds, a \in AnalysisTypes, c \in Limits}
  \cup {Lookup("generate_explanation", <<t>>, <<m>>) :
          t \in Terms, m \in Models}
  \cup {Lookup("analyze_relationship", <<t, u>>, <<m>>) :
          t \in Terms, u \in Terms, m \in Models}
  \cup {Lookup("generate_lexical_relations", <<n>>, <<m>>) :
          n \in NodeIds, m \in Models}
  \cup {Lookup("generate_exercise", <<n>>, <<d, v, m>>) :
          n \in NodeIds, d \in Modes, v \in Levels, m \in Models}

\* The Cache object as the key-building code finds it: nothing stored.
CacheFresh ==
  /\ cache = [k \in Keys |-> NoEntry]
  /\ db = [k \in Keys |-> NoRow]
  /\ lock = 0
  /\ clock = Epoch
  /\ th = [t \in Threads |-> IdleThread]
  /\ opsLeft = MaxOps
  /\ dbFault = FALSE
  /\ last = [k \in Keys |-> NoLast]

\* Two lookups, at any call sites with any inputs.
KeyInit ==
  /\ CacheFresh
  /\ look \in [Sides -> Lookups]
  /\ store = {}
  /\ req = NoReq
  /\ reqLeft = 0
  /\ HAS_VALID_API_KEY = TRUE

\* The call site of lookup s builds its cache_key.
BuildKey(s) ==
  /\ look[s].key = <<>>
  /\ look' = [look EXCEPT ![s].key = cache_key(look[s])]
  /\ UNCHANGED <<cacheVars, store, req, reqLeft, HAS_VALID_API_KEY>>

KeyNext == \E s \in Sides : BuildKey(s)

KeySpec == KeyInit /\ [][KeyNext]_vars

\* -------------------------------------------------------------- startup
\* The process before cache = Cache() has run: cache.db holds what earlier
\* processes left, under either key; the importing thread is at the
\* constructor.
StartInit ==
  /\ AppIdle
  /\ cache = [k \in Keys |-> NoEntry]
  /\ db \in [Keys -> InitRows]
  /\ lock = 0
  /\ clock = Epoch
  /\ th = [t \in Threads |->
             IF t = 1 THEN [IdleThread EXCEPT !.pc = "start"]
             ELSE IdleThread]
  /\ opsLeft = MaxOps
  /\ dbFault = FALSE
  /\ last = [k \in Keys |-> NoLast]

\* Cache.__init__ with SQLite available: _init_db creates table and index
\* if missing and runs _clean_expired.  History: last marks the keys whose
\* row the sweep removed.
init_db(t) ==
  /\ th[t].pc = "start"
  /\ db' = clean_expired(db, clock)
  /\ th' = [th EXCEPT ![t] = [IdleThread EXCEPT !.op = "init"]]
  /\ last' = [k \in Keys |->
                IF db'[k] # db[k] THEN [NoLast EXCEPT !.kind = "swept"]
                ELSE last[k]]
  /\ UNCHANGED <<cache, lock, clock, opsLeft, dbFault, appVars>>

\* Cache.__init__ when sqlite3.connect raises, in _init_db (the handler of
\* __init__ logs) or in _clean_expired (its own handler logs): no sweep.
init_db_fails(t) ==
  /\ th[t].pc = "start"
  /\ th' = [th EXCEPT ![t] = [IdleThread EXCEPT !.op = "init"]]
  /\ dbFault' = TRUE
  /\ UNCHANGED <<cache, db, lock, clock, opsLeft, last, appVars>>

StartNext == Tick \/ init_db(1) \/ init_db_fails(1)

StartSpec == StartInit /\ [][StartNext]_vars

\* ------------------------------------------------- cache-wrapped calls
MaxRequests == 2

\* Python values of the call sites: a dict, or the str json.dumps makes of
\* it.  body tells what the dict holds: "data", "empty" ({}), "note" (default
\* fields with a generation_note), "error" (an "error" field among others)
\* or "no_key" (the "error" field of a missing API key and nothing else); by
\* is the model that generated it (_model_used), if any.
AppValue(type, body, by) == [type |-> type, body |-> body, by |-> by]

\* None, as cache.get returns on a miss.
Absent == AppValue("none", "none", <<>>)

\* json.dumps(result) and json.loads(cached_result) at the call sites.
dumps(v) == [v EXCEPT !.type = "str"]
loads(v) == [v EXCEPT !.type = "dict"]

\* if cached_result: the truth value of a Python object (None and {} are
\* false, a non-empty str or dict is true).
Truthy(v) ==
  /\ v.type # "none"
  /\ v.type = "str" \/ v.body # "empty"

\* cache.get(cache_key) and cache.set(cache_key, value, ex) as the call
\* sites see the global cache: the value last set under the key.
cache_get(st, k) ==
  IF \E e \in st : e.key = k
  THEN (CHOOSE e \in st : e.key = k).value
  ELSE Absent

cache_set(st, k, v, ex) ==
  {e \in st : e.key # k} \cup {[key |-> k, value |-> v, ex |-> ex]}

\* What the upstream collaborator (Wikidata, Gemini, the graph analysis)
\* does when called: a result, an empty result, an exception.
Outcomes == {"ok", "empty", "raise"}

\* response.text of the generative collaborator, beyond these: "ok" is the
\* JSON object the prompt asks for, "fenced" is that object inside a code
\* block or between other text, "prose" is text with no object and no
\* field in it.
Responses == Outcomes \cup {"fenced", "prose"}

\* The outcome of serving a request: the value returned, how, whether the
\* cache served it, the number of upstream calls, whether the upstream
\* raised, and the cache afterwards.
Served(out, status, hit, upstream, failed, st) ==
  [out |-> out, status |-> status, hit |-> hit, upstream |-> upstream,
   failed |-> failed, st |-> st]

\* The dict the upstream result becomes.
Result(o, by) ==
  AppValue("dict", IF o = "empty" THEN "empty" ELSE "data", by)

\* jsonify({'error': str(e)}), 500.
Error500(upstream, st) ==
  Served(AppValue("dict", "error", <<>>), "500", FALSE, upstream, TRUE, st)

\* /wikidata-info: the dict of get_wikidata_info is cached as it is.
wikidata_info(st, l, o) ==
  LET k == cache_key(l)
      cached == cache_get(st, k)
  IN IF Truthy(cached) THEN Served(cached, "200", TRUE, 0, FALSE, st)
     ELSE IF o = "raise" THEN Error500(1, st)
     ELSE Served(Result(o, <<>>), "200", FALSE, 1, FALSE,
                 cache_set(st, k, Result(o, <<>>), 86400))

\* /wikidata-related: result = {"term": term, "related_terms": [...]}.
wikidata_related(st, l, o) ==
  LET k == cache_key(l)
      cached == cache_get(st, k)
      result == AppValue("dict", "data", <<>>)
  IN IF Truthy(cached) THEN Served(cached, "200", TRUE, 0, FALSE, st)
     ELSE IF o = "raise" THEN Error500(1, st)
     ELSE Served(result, "200", FALSE, 1, FALSE,
                 cache_set(st, k, result, 86400))

\* /node-details: result = {'id': ..., 'language': ...} plus the parts the
\* include list names; a failed Wikidata lookup becomes
\* result['wikidata'] = {'error': ...} and the result is cached all the same.
node_details(st, l, o) ==
  LET k == cache_key(l)
      cached == cache_get(st, k)
      wanted == \E i \in 1..Len(l.par[1]) : l.par[1][i] = "wikidata"
      failed == wanted /\ o = "raise"
      result == AppValue("dict", IF failed THEN "error" ELSE "data", <<>>)
  IN IF Truthy(cached) THEN Served(cached, "200", TRUE, 0, FALSE, st)
     ELSE Served(result, "200", FALSE, IF wanted THEN 1 ELSE 0, failed,
                 cache_set(st, k, result, 3600))

\* /graph-analysis: the analysis of the graph, cached as JSON text; an
\* unknown analysis type leaves result = {}.
graph_analysis(st, l, o) ==
  LET k == cache_key(l)
      cached == cache_get(st, k)
  IN IF Truthy(cached) THEN Served(loads(cached), "200", TRUE, 0, FALSE, st)
     ELSE IF o = "raise" THEN Error500(1, st)
     ELSE Served(Result(o, <<>>), "200", FALSE, 1, FALSE,
                 cache_set(st, k, dumps(Result(o, <<>>)), 24 * 60 * 60))

\* Mutant of OnGenerationError: no handler around the Gemini call.
OnGenerationErrorRaises(upstream, st) ==
  Served(Absent, "raised", FALSE, upstream, TRUE, st)

\* except Exception in the generation helpers: log, return a dict with an
\* "error" field; cache.set has not been reached.
OnGenerationError(upstream, st) ==
  Served(AppValue("dict", "error", <<>>), "returned", FALSE, upstream, TRUE,
         st)

\* if not HAS_VALID_API_KEY: return {"error": "No valid Gemini API key
\* configured"}, the first statement of the generation helpers.
NoApiKey(st) ==
  Served(AppValue("dict", "no_key", <<>>), "returned", FALSE, 0, FALSE, st)

\* Mutant of parse: a text that holds no object counts as parsed.
parseAnyText(o) == IF o = "empty" THEN "note" ELSE "data"

\* What the helpers make of response.text: the object found in it (as it
\* is, in a code block or between braces) updates the default fields; an
\* empty text or one holding no object keeps them and adds a
\* generation_note.
parse(o) == IF o \in {"ok", "fenced"} THEN "data" ELSE "note"

\* Mutant of generate_explanation: the cache is consulted before the key.
generate_explanation_CacheFirst(st, l, o) ==
  LET k == cache_key(l)
      cached == cache_get(st, k)
      explanation ==
        AppValue("dict", parse(o), current_model_name(l.par[1]))
  IN IF Truthy(cached)
     THEN Served(loads(cached), "returned", TRUE, 0, FALSE, st)
     ELSE IF ~HAS_VALID_API_KEY THEN NoApiKey(st)
     ELSE IF o = "raise" THEN OnGenerationError(1, st)
     ELSE Served(explanation, "returned", FALSE, 1, FALSE,
                 cache_set(st, k, dumps(explanation), 3 * 24 * 60 * 60))

\* gemini_helper.generate_explanation and analyze_relationship.
generate_explanation(st, l, o) ==
  LET k == cache_key(l)
      cached == cache_get(st, k)
      explanation ==
        AppValue("dict", parse(o), current_model_name(l.par[1]))
  IN IF ~HAS_VALID_API_KEY THEN NoApiKey(st)
     ELSE IF Truthy(cached)
     THEN Served(loads(cached), "returned", TRUE, 0, FALSE, st)
     ELSE IF o = "raise" THEN OnGenerationError(1, st)
     ELSE Served(explanation, "returned", FALSE, 1, FALSE,
                 cache_set(st, k, dumps(explanation), 3 * 24 * 60 * 60))

\* if not gemini_helper.is_available(): return jsonify({"error": ...}), 503.
Error503(st) ==
  Served(AppValue("dict", "error", <<>>), "503", FALSE, 0, FALSE, st)

\* /gemini-explanation and /gemini-analyze: the helper's dict, whatever it
\* holds, is wrapped in a response and cached as JSON text.
gemini_endpoint(st, l, o, helper) ==
  LET k == cache_key(l)
      cached == cache_get(st, k)
      h == generate_explanation(st, Lookup(helper, l.subj, l.par), o)
      response == h.out
  IN IF ~HAS_VALID_API_KEY THEN Error503(st)
     ELSE IF Truthy(cached)
     THEN Served(loads(cached), "200", TRUE, 0, FALSE, st)
     ELSE Served(response, "200", FALSE, h.upstream, h.failed,
                 cache_set(h.st, k, dumps(response), 3 * 24 * 60 * 60))

\* ai_generation_single.generate_lexical_relations: the requested model,
\* then the two fallback models; a response that is no JSON is not cached.
generate_lexical_relations(st, l, o) ==
  LET k == cache_key(l)
      cached == cache_get(st, k)
      result == AppValue("dict", "data", l.par[1])
  IN IF ~HAS_VALID_API_KEY THEN NoApiKey(st)
     ELSE IF Truthy(cached)
     THEN Served(loads(cached), "returned", TRUE, 0, FALSE, st)
     ELSE IF o = "raise" THEN OnGenerationError(3, st)
     ELSE IF o = "empty"
          THEN Served(AppValue("dict", "error", <<>>), "returned", FALSE,
                      1, FALSE, st)
     ELSE Served(result, "returned", FALSE, 1, FALSE,
                 cache_set(st, k, dumps(result), 7 * 24 * 60 * 60))

\* Mutant of generate_exercise: the cache is used whether or not there is
\* a session history.
generate_exercise_IgnoresHistory(st, l, o, session_history) ==
  LET k == cache_key(l)
      cached == cache_get(st, k)
      result == AppValue("dict", "data", l.par[3])
  IN IF ~HAS_VALID_API_KEY
     THEN Served(AppValue("dict", "error", <<>>), "returned", FALSE, 0,
                 FALSE, st)
     ELSE IF Truthy(cached)
     THEN Served(loads(cached), "returned", TRUE, 0, FALSE, st)
     ELSE IF o = "raise" THEN OnGenerationError(1, st)
     ELSE Served(result, "returned", FALSE, 1, FALSE,
                 cache_set(st, k, dumps(result), 86400))

\* exercises_script.generate_exercise: the cache is used only when there is
\* no session history.
generate_exercise(st, l, o, session_history) ==
  LET k == cache_key(l)
      cached == IF session_history THEN Absent ELSE cache_get(st, k)
      result == AppValue("dict", "data", l.par[3])
  IN IF ~HAS_VALID_API_KEY
     THEN Served(AppValue("dict", "error", <<>>), "returned", FALSE, 0,
                 FALSE, st)
     ELSE IF Truthy(cached)
     THEN Served(loads(cached), "returned", TRUE, 0, FALSE, st)
     ELSE IF o = "raise" THEN OnGenerationError(1, st)
     ELSE Served(result, "returned", FALSE, 1, FALSE,
                 IF session_history THEN st
                 ELSE cache_set(st, k, dumps(result), 86400))

\* The handler of each call site.
Handle(st, l, o, session_history) ==
  CASE l.site = "wikidata_info" -> wikidata_info(st, l, o)
    [] l.site = "wikidata_related" -> wikidata_related(st, l, o)
    [] l.site = "node_details" -> node_details(st, l, o)
    [] l.site = "graph_analysis" -> graph_analysis(st, l, o)
    [] l.site = "gemini_endpoint_explanation" ->
         gemini_endpoint(st, l, o, "generate_explanation")
    [] l.site = "gemini_endpoint_analyze" ->
         gemini_endpoint(st, l, o, "analyze_relationship")
    [] l.site \in {"generate_explanation", "analyze_relationship"} ->
         generate_explanation(st, l, o)
    [] l.site = "generate_lexical_relations" ->
         generate_lexical_relations(st, l, o)
    [] l.site = "generate_exercise" ->
         generate_exercise(st, l, o, session_history)

\* The requests served: one term, one node, either model.
WrapLookups ==
  {l \in Lookups :
     /\ \A i \in 1..Len(l.subj) : l.subj[i] \in {<<"a">>, <<"1">>}
     /\ l.site \in {"wikidata_info", "wikidata_related"}
          => l.par[1] = <<"ja">>
     /\ l.site = "graph_analysis" => l.par[1] = <<"basic">>
     /\ l.site = "generate_exercise" => l.par[1] = <<"exercise">>}

\* The process has started and no request has been served.
WrapInit ==
  /\ CacheFresh
  /\ look = [s \in Sides |-> NoLook]
  /\ store = {}
  /\ req = NoReq
  /\ reqLeft = MaxRequests
  /\ HAS_VALID_API_KEY = TRUE

\* A request (or a direct call of a helper) is served from start to end.
Request(l, o, session_history) ==
  /\ reqLeft > 0
  /\ LET r == Handle(store, l, o, session_history) IN
       /\ store' = r.st
       /\ req' = [site |-> l.site,
                  key |-> IF session_history THEN <<>> ELSE cache_key(l),
                  out |-> r.out, status |-> r.status, hit |-> r.hit,
                  upstream |-> r.upstream, failed |-> r.failed,
                  answer |-> o, par |-> l.par]
  /\ reqLeft' = reqLeft - 1
  /\ UNCHANGED <<cacheVars, look, HAS_VALID_API_KEY>>

\* The TTL of an entry elapses: cache.get no longer returns it.
Expire(k) ==
  /\ \E e \in store : e.key = k
  /\ store' = {e \in store : e.key # k}
  /\ UNCHANGED <<cacheVars, look, req, reqLeft, HAS_VALID_API_KEY>>

WrapNext ==
  \/ \E l \in WrapLookups, o \in Responses, session_history \in BOOLEAN :
       /\ session_history => l.site = "generate_exercise"
       /\ o \notin Outcomes =>
            l.site \in {"generate_explanation", "analyze_relationship",
                        "gemini_endpoint_explanation",
                        "gemini_endpoint_analyze"}
       /\ Request(l, o, session_history)
  \/ \E e \in store : Expire(e.key)

WrapSpec == WrapInit /\ [][WrapNext]_vars

\* ------------------------------------------- gemini_helper called directly
\* cache.db as an earlier run of the process may have left it: without
\* rows, or with the explanation that run generated and stored.
Persisted ==
  {{},
   {[key |-> cache_key(Lookup("generate_explanation", << <<"a">> >>,
                              << <<"m1">> >>)),
     value |-> dumps(AppValue("dict", "data", <<"m1">>)),
     ex |-> 3 * 24 * 60 * 60]}}

\* The calls of the two helpers of gemini_helper for one term.
HelperLookups ==
  {l \in WrapLookups :
     l.site \in {"generate_explanation", "analyze_relationship"}}

\* gemini_helper has been imported, with a valid API key in config or
\* without one, and no call has been made.
HelperInit ==
  /\ CacheFresh
  /\ look = [s \in Sides |-> NoLook]
  /\ store \in Persisted
  /\ req = NoReq
  /\ reqLeft = MaxRequests
  /\ HAS_VALID_API_KEY \in BOOLEAN

HelperNext ==
  \/ \E l \in HelperLookups, o \in Responses : Request(l, o, FALSE)
  \/ \E e \in store : Expire(e.key)

HelperSpec == HelperInit /\ [][HelperNext]_vars

\* ---------------------------------------------------------------- claims
\* Thread t has returned from a call of op and has not called again.
Done(t, op) == th[t].pc = "idle" /\ th[t].op = op

\* The get of t began right after a completed set of its key: no call on the
\* key by any thread overlapped the set, came between the set and the get, or
\* overlapped the get.
AfterSet(t) ==
  /\ Done(t, "get")
  /\ th[t].expect.kind = "set"
  /\ th[t].expect.clean
  /\ th[t].alone

\* The get of t began right after a completed delete of its key, in the same
\* sense.
AfterDelete(t) ==
  /\ Done(t, "get")
  /\ th[t].expect.kind = "delete"
  /\ th[t].expect.clean
  /\ th[t].alone

\* The in-memory entry of k exists and is not expired at the clock.
LiveMem(k) == cache[k] # NoEntry /\ ~(clock > cache[k].expires_at)

\* The durable row of k exists, is readable and is not expired at the clock.
LiveDb(k) ==
  /\ db[k] # NoRow
  /\ IsIso(db[k].expires_at)
  /\ IsJson(db[k].value)
  /\ ~(clock > fromisoformat(db[k].expires_at))

\* a and b are the same Python value or serialize to the same JSON text.
JsonEq(a, b) ==
  \/ a = b
  \/ Serializable(a) /\ Serializable(b) /\ json_dumps(a) = json_dumps(b)

\* No call is in progress.
Quiescent == lock = 0 /\ \A t \in Threads : th[t].pc = "idle"

\* C1: set(k, v, t) followed immediately by get(k), with no other operation
\* on k in between and the clock not past the expiration, returns v.
C1_RoundTrip ==
  \A t \in Threads :
    AfterSet(t) /\ clock <= th[t].expect.expires_at
      => th[t].ret = th[t].expect.value

\* C1 witness: a get right after a set returned the tuple that was set, from
\* the in-memory tier, at the very second the entry expires.
C1_Witness ==
  \E t \in Threads :
    /\ AfterSet(t)
    /\ th[t].ret = PyTuple
    /\ th[t].how = "mem"
    /\ clock = th[t].expect.expires_at
    /\ clock > Epoch

\* The steps in which a get passes an expiry test and goes on to return the
\* tested entry: from the in-memory tier, or from the durable row.
C2_Step(t) ==
  LET k == th[t].key IN
  /\ (th[t].pc = "g_mem" /\ th'[t].pc = "idle" /\ th'[t].ret # None)
       => cache[k].expires_at >= clock
  /\ (th[t].pc = "g_select" /\ th'[t].pc = "g_lock2")
       => fromisoformat(db[k].expires_at) >= clock

\* A get that began after the entry of the latest set had expired, that set
\* having reached both tiers and no other call touching the key, is absent.
C2_Particular ==
  \A t \in Threads :
    AfterSet(t) /\ th[t].expect.stored /\ th[t].late => th[t].ret = None

C3_NoStaleRead ==
  \A t \in Threads :
    ( /\ Done(t, "get")
      /\ th[t].expect.kind = "set"
      /\ clock <= th[t].expect.expires_at
      /\ ~dbFault )
      => JsonEq(th[t].ret, th[t].expect.value)

\* C4: with no call in progress and no durable-tier fault so far, a key live
\* in both tiers has the same value and the same expiration in both.
C4_TiersAgree ==
  (Quiescent /\ ~dbFault) =>
    \A k \in Keys :
      (LiveMem(k) /\ LiveDb(k)) =>
        /\ json_dumps(cache[k].value) = db[k].value
        /\ isoformat(cache[k].expires_at) = db[k].expires_at

\* C5: after set(k, v1, t1) and then set(k, v2, t2) have completed in that
\* order, no later get(k) returns v1, whatever the TTLs and whether or not
\* the durable write of the second set succeeded.
C5_Overwrite ==
  \A t \in Threads :
    ( /\ AfterSet(t)
      /\ th[t].expect.prev # None
      /\ th[t].expect.prev # th[t].expect.value )
      => th[t].ret # th[t].expect.prev

\* C6: a completed delete(k) has removed k from both tiers and raised
\* nothing, and a get(k) after it returns absent.
C6_Delete ==
  /\ \A t \in Threads :
       (Done(t, "delete") /\ th[t].alone) =>
         /\ th[t].ret = None
         /\ cache[th[t].key] = NoEntry
         /\ db[th[t].key] = NoRow
  /\ \A t \in Threads : AfterDelete(t) => th[t].ret = None

\* C7: after delete(k) has completed, a get(k) that begins afterwards with no
\* later set of k returns no value, even when another get(k) was in flight
\* during the delete (no durable fault involved).
C7_NoResurrection ==
  \A t \in Threads :
    (Done(t, "get") /\ th[t].expect.kind = "delete" /\ ~dbFault)
      => th[t].ret = None

\* A get served from the durable tier, with no other call on the key, has
\* returned the row's value and left an in-memory entry equal to the row.
C8_Repopulated ==
  \A t \in Threads :
    (Done(t, "get") /\ th[t].how = "db" /\ th[t].alone) =>
      LET k == th[t].key IN
      /\ IsJson(db[k].value)
      /\ th[t].ret = json_loads(db[k].value)
      /\ cache[k] = [value |-> th[t].ret,
                     expires_at |-> fromisoformat(db[k].expires_at)]

\* A get that finds an unexpired in-memory entry returns it in that step,
\* without going to the durable tier.
C8_HitStep(t) ==
  LET k == th[t].key IN
  (th[t].pc = "g_mem" /\ th'[t].pc # "g_mem" /\ LiveMem(k)) =>
    /\ th'[t].pc = "idle"
    /\ th'[t].how = "mem"
    /\ th'[t].ret = cache[k].value
    /\ db' = db

\* C8: with k absent from the in-memory tier and an unexpired durable row,
\* get(k) returns the row's value and repopulates the in-memory tier with the
\* row's value and expiration, so that the next get(k) is served from memory.
C8_TierRepopulation ==
  []C8_Repopulated /\ [][\A t \in Threads : C8_HitStep(t)]_vars

\* C8 witness: with no set ever made, a get was served from memory the list
\* that only a repopulation from the durable row can have put there.
C8_Witness ==
  \E t \in Threads :
    /\ Done(t, "get")
    /\ th[t].how = "mem"
    /\ th[t].ret = PyList
    /\ last[th[t].key].kind = "none"

\* A set whose durable write failed has returned normally and, no other call
\* touching the key, its value and expiration are in the in-memory tier.
C9_MemoryStands ==
  \A t \in Threads :
    (Done(t, "set") /\ th[t].how = "dbfail") =>
      /\ th[t].ret = None
      /\ th[t].alone =>
           cache[th[t].key] =
             [value |-> th[t].value, expires_at |-> th[t].expires_at]

\* The expiration a set call computes is the clock at the call plus its ex.
C9_CallStep(t) ==
  (th[t].pc = "idle" /\ th'[t].pc = "s_lock") =>
    th'[t].expires_at = clock + th'[t].ex

\* A get right after a set whose durable write failed returns the value set.
C9_GetAfter ==
  \A t \in Threads :
    (AfterSet(t) /\ ~th[t].expect.stored
       /\ clock <= th[t].expect.expires_at)
      => th[t].ret = th[t].expect.value

\* C9: if the durable write of set(k, v, t) fails (I/O error or v not
\* serializable), set returns normally, the in-memory entry holds v with
\* expiration now + t, and a following get(k) returns v.
C9_FaultIsolation ==
  /\ [](C9_MemoryStands /\ C9_GetAfter)
  /\ [][\A t \in Threads : C9_CallStep(t)]_vars

\* C9 witness: a get right after the set of an unserializable value returned
\* that value.
C9_Witness ==
  \E t \in Threads :
    /\ AfterSet(t)
    /\ ~th[t].expect.stored
    /\ th[t].ret = PyObj

\* C10: get never raises; when the durable row cannot be read or
\* deserialized, get returns absent and leaves no in-memory entry for k.
C10_GetNeverRaises ==
  \A t \in Threads :
    Done(t, "get") =>
      /\ th[t].ret # Raised
      /\ th[t].how = "error" =>
           /\ th[t].ret = None
           /\ th[t].alone => cache[th[t].key] = NoEntry

\* C10 witness: a get met the row with the invalid JSON payload, unexpired,
\* with no I/O error, and returned absent.
C10_Witness ==
  \E t \in Threads :
    /\ Done(t, "get")
    /\ th[t].how = "error"
    /\ th[t].ret = None
    /\ th[t].alone
    /\ ~dbFault
    /\ db[th[t].key].value = BadJson

\* A get that began after a completed set of its key, no set or delete of the
\* key having overlapped that set or begun since.
SinceSet(t) == Done(t, "get") /\ th[t].expect.kind = "set"

\* A get that began after a completed delete of its key, in the same sense.
SinceDelete(t) == Done(t, "get") /\ th[t].expect.kind = "delete"

\* C11: with the durable tier unavailable from construction on, no call
\* raises and the store is an in-memory expiring map: a get after a set
\* returns the value set while it has not expired and absent once it has, a
\* get after a delete returns absent, and nothing comes from the durable
\* tier.
C11_MemoryOnly ==
  \A t \in Threads :
    /\ th[t].ret # Raised
    /\ th[t].how # "db"
    /\ (SinceSet(t) /\ clock <= th[t].expect.expires_at)
         => th[t].ret = th[t].expect.value
    /\ (SinceSet(t) /\ th[t].late) => th[t].ret = None
    /\ SinceSet(t) => th[t].ret \in {None, th[t].expect.value}
    /\ SinceDelete(t) => th[t].ret = None
    /\ (Done(t, "get") /\ th[t].expect.kind = "none" /\ th[t].alone)
         => th[t].ret = None

\* C11 witness: the expired row the failed startup never swept is still in
\* cache.db while a get after a set returns the tuple that was set.
C11_Witness ==
  \E t \in Threads :
    /\ SinceSet(t)
    /\ th[t].ret = PyTuple
    /\ db[th[t].key].value = "\"b\""
    /\ clock > Epoch

\* C12: the store shares no mutable state with its callers: no get returns
\* the changed form of an object that a caller changed after passing it to
\* set or after receiving it from get (no set ever passed a changed form).
C12_NoSharing ==
  \A t \in Threads :
    Done(t, "get") => th[t].ret \notin {PyListM, PyObjM}

\* Every step that changes the in-memory entry of k removes it or writes the
\* (value, expiration) pair held by one call: the pair of a set call, or the
\* pair a get copied from one durable row.
C13_MemStep(k) ==
  cache'[k] # cache[k] =>
    \/ cache'[k] = NoEntry
    \/ \E t \in Threads :
         /\ th[t].pc \in {"s_mem", "g_fill"}
         /\ th[t].key = k
         /\ cache'[k] = [value |-> th[t].value,
                         expires_at |-> th[t].expires_at]

\* Every step that changes the durable row of k removes it or writes the
\* serialized pair of one set call.
C13_DbStep(k) ==
  db'[k] # db[k] =>
    \/ db'[k] = NoRow
    \/ \E t \in Threads :
         /\ th[t].pc = "s_db"
         /\ th[t].key = k
         /\ Serializable(th[t].value)
         /\ db'[k] = [value |-> json_dumps(th[t].value),
                      expires_at |-> isoformat(th[t].expires_at)]

\* A call keeps its pair from one step to the next: a set the pair it
\* computed when called, a get the pair it read, both columns from the row
\* as it stood at the SELECT.
C13_CallStep(t) ==
  /\ (th[t].pc \in {"s_lock", "s_mem", "s_db", "g_lock2", "g_fill"})
       => /\ th'[t].value = th[t].value \/ th'[t].pc = "idle"
          /\ th'[t].expires_at = th[t].expires_at \/ th'[t].pc = "idle"
  /\ (th[t].pc = "g_select" /\ th'[t].pc = "g_lock2")
       => /\ th'[t].value = json_loads(db[th[t].key].value)
          /\ th'[t].expires_at = fromisoformat(db[th[t].key].expires_at)
  /\ (th[t].pc = "g_fill" /\ th'[t].pc = "idle")
       => th'[t].ret = th[t].value

\* C13: the (value, expiration) pair of every durable row and in-memory
\* entry was written together by one set call or copied together from one
\* durable row by get; a get served from the durable tier sees a whole row.
C13_AtomicPairs ==
  [][ /\ \A k \in Keys : C13_MemStep(k) /\ C13_DbStep(k)
      /\ \A t \in Threads : C13_CallStep(t) ]_vars

\* C13 witness: a get was served from the durable row that a set of this
\* process wrote, and left in memory that row's value with its expiration.
C13_Witness ==
  \E t \in Threads :
    /\ Done(t, "get")
    /\ th[t].how = "db"
    /\ th[t].ret = PyStrA
    /\ db[th[t].key].value = "\"a\""
    /\ cache[th[t].key] =
         [value |-> PyStrA,
          expires_at |-> fromisoformat(db[th[t].key].expires_at)]

\* The durable row a set of (v, expires_at) writes.
RowOf(v, expires_at) ==
  [value |-> json_dumps(v), expires_at |-> isoformat(expires_at)]

\* t is inside a set that repeats its previous set, whose durable write had
\* the given outcome.
Repeating(t, outcome) ==
  /\ th[t].pc \in {"s_lock", "s_mem", "s_db"}
  /\ th[t].again = outcome

\* No step of a set that repeats a stored set changes either tier; a repeat
\* of a set whose durable write failed changes at most the durable row of k,
\* to the row a single call writes; no set step touches another key.
C14_Step(t) ==
  LET k == th[t].key IN
  /\ Repeating(t, "stored") => cache' = cache /\ db' = db
  /\ Repeating(t, "dbfail") =>
       /\ cache' = cache
       /\ \/ db' = db
          \/ /\ Serializable(th[t].value)
             /\ db' = [db EXCEPT ![k] = RowOf(th[t].value, th[t].expires_at)]
  /\ th[t].pc \in {"s_lock", "s_mem", "s_db"} =>
       \A j \in Keys \ {k} : cache'[j] = cache[j] /\ db'[j] = db[j]

\* After the repeat both tiers are as a single call leaves them.
C14_After ==
  \A t \in Threads :
    (Done(t, "set") /\ th[t].again # "none") =>
      LET k == th[t].key IN
      /\ cache[k] = [value |-> th[t].value, expires_at |-> th[t].expires_at]
      /\ ("stored" \in {th[t].again, th[t].how})
           => db[k] = RowOf(th[t].value, th[t].expires_at)

\* C14: repeating set(k, v, ttl) with the same arguments at the same clock
\* value leaves both tiers in the state a single such call leaves them in,
\* whatever the prior state of k, and leaves other keys untouched.
C14_Idempotent == [][\A t \in Threads : C14_Step(t)]_vars /\ []C14_After

\* C14 witness: set(k, "a", 1) was called twice at the first second over a
\* durable row left by an earlier process, and both calls stored.
C14_Witness ==
  \E t \in Threads :
    /\ Done(t, "set")
    /\ th[t].again = "stored"
    /\ th[t].how = "stored"
    /\ th[t].value = PyStrA
    /\ th[t].expires_at = Epoch + 1
    /\ clock = Epoch
    /\ last[th[t].key].prev = PyStrA

\* Both lookups have built their keys.
BothBuilt == look["first"].key # <<>> /\ look["second"].key # <<>>

\* The two lookups have the same operation, subject terms and parameters.
SameLookup ==
  /\ look["first"].site = look["second"].site
  /\ look["first"].subj = look["second"].subj
  /\ look["first"].par = look["second"].par

\* C15: key construction is deterministic and injective in (operation,
\* subject terms, parameters): the keys of two lookups are byte-identical
\* exactly when the lookups have the same operation, subjects and parameters.
C15_KeysInjective ==
  BothBuilt => (SameLookup <=> look["first"].key = look["second"].key)

\* Both lookups are requests to the same Gemini endpoint for the same
\* term(s).
SameGeminiRequest ==
  /\ look["first"].site \in
       {"gemini_endpoint_explanation", "gemini_endpoint_analyze"}
  /\ look["first"].site = look["second"].site
  /\ look["first"].subj = look["second"].subj

\* C16: two requests to /gemini-explanation or /gemini-analyze for the same
\* term(s) that name different model_name values use different cache keys
\* (so that the response of one model is not served for the other).
C16_ModelInKey ==
  (BothBuilt /\ SameGeminiRequest
     /\ look["first"].par[1] # look["second"].par[1])
    => look["first"].key # look["second"].key

\* The fields named by an include list.
Fields(include) == {include[i] : i \in 1..Len(include)}

\* C17: two /node-details requests with the same node id and language whose
\* include lists hold the same fields, in whatever order, use the same key.
C17_IncludeCanonical ==
  ( /\ BothBuilt
    /\ look["first"].site = "node_details"
    /\ look["second"].site = "node_details"
    /\ look["first"].subj = look["second"].subj
    /\ look["first"].par[2] = look["second"].par[2]
    /\ Fields(look["first"].par[1]) = Fields(look["second"].par[1]) )
    => look["first"].key = look["second"].key

\* The step serves a request.
Serving == reqLeft' # reqLeft

\* C18: once a result is stored under a key, every later call with that key
\* before the TTL elapses returns the stored result without invoking the
\* upstream collaborator, whatever the stored result is.
C18_HitBypassesUpstream ==
  [][ (Serving /\ \E e \in store : e.key = req'.key) =>
        /\ req'.hit
        /\ req'.upstream = 0
        /\ req'.out.body = cache_get(store, req'.key).body
        /\ req'.out.by = cache_get(store, req'.key).by ]_vars

\* C19: when the upstream collaborator fails after a cache miss, the
\* operation writes no cache entry.
C19_ErrorsNotCached ==
  [][ (Serving /\ req'.failed) => store' = store ]_vars

\* The generation helpers.
Helpers ==
  {"generate_explanation", "analyze_relationship",
   "generate_lexical_relations", "generate_exercise"}

Explaining == Serving /\ req'.site = "generate_explanation"

\* C21: without a valid API key generate_explanation returns exactly the
\* mapping {"error": "No valid Gemini API key configured"}: nothing stored
\* under its key is returned, the cache is left as it was and the
\* generative collaborator is not called.
C21_NoApiKey ==
  [][ (Explaining /\ ~HAS_VALID_API_KEY) =>
        /\ req'.status = "returned"
        /\ req'.out = AppValue("dict", "no_key", <<>>)
        /\ ~req'.hit
        /\ req'.upstream = 0
        /\ store' = store ]_vars

\* C21 happens: without a key the call is answered with the error mapping
\* although an explanation is stored under its key.
C21_Witness ==
  /\ ~HAS_VALID_API_KEY
  /\ req.site = "generate_explanation"
  /\ req.out.body = "no_key"
  /\ Truthy(cache_get(store, req.key))

C24_GetKeepsLive ==
  \A t \in Threads :
    LET k == th[t].key IN
    ( /\ Quiescent
      /\ Done(t, "get")
      /\ th[t].how = "expired"
      /\ last[k].kind = "set"
      /\ last[k].owner # t
      /\ last[k].stored
      /\ clock <= last[k].expires_at
      /\ ~dbFault )
      => /\ cache[k] # NoEntry
         /\ cache[k].value = last[k].value
         /\ db[k] # NoRow
         /\ db[k].value = json_dumps(last[k].value)

\* The positions of a thread inside a with self._lock block, where the
\* statements that read or write self._cache are.
Critical == {"g_mem", "g_evict", "g_fill", "s_mem", "d_mem"}

\* C25: every read or write of the in-memory map is made by a thread that
\* holds the lock, at most one thread is inside such a section, and the
\* check-expired-then-evict of get is atomic: the entry evicted is the
\* expired entry that was checked, no step of another thread changing the
\* map in between.
C25_LockDiscipline ==
  [][ /\ \A t \in Threads : th[t].pc \in Critical => lock = t
      /\ Cardinality({t \in Threads : th[t].pc \in Critical}) <= 1
      /\ cache' # cache =>
            \E t \in Threads :
              /\ lock = t
              /\ th[t].pc \in Critical
              /\ th'[t].pc # th[t].pc
              /\ \A u \in Threads \ {t} : th'[u] = th[u]
      /\ \A t \in Threads :
            LET k == th[t].key IN
            /\ (th[t].pc = "g_evict" /\ th'[t].pc = "g_evict") =>
                  cache' = cache
            /\ (th[t].pc = "g_evict" /\ th'[t].pc # "g_evict") =>
                  /\ cache[k] # NoEntry
                  /\ Expired(clock, cache[k].expires_at)
                  /\ cache' = [cache EXCEPT ![k] = NoEntry] ]_vars

\* C25 happens: a get is between its expiry check and the eviction while
\* a set or delete of the same key waits for the lock.
C25_Witness ==
  \E t \in Threads, u \in Threads :
    /\ th[t].pc = "g_evict"
    /\ th[u].pc \in {"s_lock", "d_lock"}
    /\ th[u].key = th[t].key
    /\ lock = t

\* C26: under fair scheduling every get, set and delete call returns: the
\* lock is held only at the in-memory statements, never by a thread that
\* is at a durable-tier call or that enters a nested call (get's call of
\* delete on an expired durable row included), so no thread waits for
\* ever for the lock.
C26_Terminates ==
  /\ [](\A t \in Threads : lock = t => th[t].pc \in Critical)
  /\ \A t \in Threads : (th[t].pc # "idle") ~> (th[t].pc = "idle")

\* C26 happens: a get has returned from its nested delete of an expired
\* durable row, which took the lock a second time within the call, while
\* the other thread was inside a call.
C26_Witness ==
  \E t \in Threads, u \in Threads :
    /\ Done(t, "get")
    /\ th[t].how = "expired"
    /\ th[u].pc # "idle"

\* C27: the initialization of the Cache with the durable tier available
\* removes every durable row whose expiration is earlier than the time of
\* the initialization and leaves every other row as it was.
C27_StartupSweep ==
  [][ (th[1].pc = "start" /\ th'[1].pc # "start" /\ ~dbFault') =>
        \A k \in Keys :
          IF /\ db[k] # NoRow
             /\ IsIso(db[k].expires_at)
             /\ fromisoformat(db[k].expires_at) < clock
          THEN db'[k] = NoRow
          ELSE IsIso(db[k].expires_at) => db'[k] = db[k] ]_vars

\* C27 happens: the sweep of the initialization has removed the row of one
\* key and kept the row of the other, which expires at the very time of
\* the initialization.
C27_Witness ==
  /\ th[1].op = "init"
  /\ ~dbFault
  /\ \E k \in Keys, kk \in Keys :
       /\ last[k].kind = "swept"
       /\ db[k] = NoRow
       /\ db[kk] # NoRow
       /\ IsIso(db[kk].expires_at)
       /\ fromisoformat(db[kk].expires_at) = clock
       /\ clock > Epoch

\* Thread t takes a step of a get call (of its nested delete included).
GetStep(t) ==
  th[t].op = "get" /\ th[t].pc # "idle" /\ th'[t].pc # th[t].pc

\* C28: a get(k) writes no value and no expiration to the durable tier
\* and extends no lifetime: the only durable change it makes is to delete
\* the row of k, a row that is expired, and the in-memory entry it creates
\* by repopulation carries the expiration of the durable row of k.
C28_GetFrame ==
  [][ \A t \in Threads :
        LET k == th[t].key IN
        GetStep(t) =>
          /\ db' # db =>
                /\ db' = [db EXCEPT ![k] = NoRow]
                /\ IsIso(db[k].expires_at)
                /\ Expired(clock, fromisoformat(db[k].expires_at))
          /\ (cache'[k] # cache[k] /\ cache'[k] # NoEntry) =>
                /\ db[k] # NoRow
                /\ IsIso(db[k].expires_at)
                /\ cache'[k].expires_at = fromisoformat(db[k].expires_at) ]_vars

\* C29: get, set and delete on key k leave the entry of every other key,
\* value and expiration, as it was in both tiers: an entry or a row
\* changes only in a step of a call on its own key.
C29_OtherKeysUntouched ==
  [][ \A kk \in Keys :
        (cache'[kk] # cache[kk] \/ db'[kk] # db[kk]) =>
          \E t \in Threads :
            /\ th[t].pc # "idle"
            /\ th[t].key = kk
            /\ th'[t].pc # th[t].pc
            /\ \A u \in Threads \ {t} : th'[u] = th[u] ]_vars

\* C29 happens: a delete of one key has completed while the other key is
\* live in both tiers.
C29_Witness ==
  \E t \in Threads, kk \in Keys :
    /\ Done(t, "delete")
    /\ th[t].how = "deleted"
    /\ th[t].key # kk
    /\ LiveMem(kk)
    /\ LiveDb(kk)

\* A call of exercises_script.generate_exercise is served in this step.
Exercising == Serving /\ req'.site = "generate_exercise"

\* The key of (mode, node_id, level, model_name) of the call just served.
ExerciseKey(par) ==
  cache_key(Lookup("generate_exercise", << <<"1">> >>, par))

\* C30: generate_exercise uses the cache only for initial messages: a call
\* with a session history returns no cached result, calls the collaborator
\* and leaves the cache as it was, whatever the upstream outcome; after a
\* successful call without session history the cache holds the result
\* under the key of (mode, node_id, level, model_name) with a TTL of 24
\* hours.
C30_ExerciseCaching ==
  [][ /\ (Exercising /\ req'.key = <<>>) =>
           /\ ~req'.hit
           /\ req'.upstream = 1
           /\ store' = store
      /\ (/\ Exercising /\ req'.key # <<>>
          /\ ~req'.failed /\ req'.out.body = "data") =>
           /\ req'.key = ExerciseKey(req'.par)
           /\ [key |-> req'.key, value |-> dumps(req'.out),
               ex |-> 86400] \in store' ]_vars

\* C30 happens: a call with a session history went to the collaborator
\* although the result of the initial message is cached under the key of
\* its arguments.
C30_Witness ==
  /\ req.site = "generate_exercise"
  /\ req.key = <<>>
  /\ req.upstream = 1
  /\ ~req.hit
  /\ Truthy(cache_get(store, ExerciseKey(req.par)))

====
